---- MODULE Spec2Model ----
(***************************************************************************)
(* Model of the Gong MCP gateway (src/src/mcp-http-server.ts, the server   *)
(* started by the image's CMD): the in-memory OAuth authorization engine   *)
(* (client registration, authorization codes, code-for-token exchange)     *)
(* and the session-keyed protocol transport (session registry, JSON-RPC    *)
(* dispatch, delivery over the POST response or the session's SSE stream). *)
(*                                                                         *)
(* Node runs every callback to completion on one thread, so each action    *)
(* below is one callback: a request handler, a 'data' or 'end' event of a  *)
(* request body, a timer, a socket event, or the continuation of an await. *)
(* A request body is opaque to the server until its 'end' event (the       *)
(* 'data' callbacks only append to a closure-local string), so the body's  *)
(* content is drawn when 'end' parses it; the chunks received so far are   *)
(* counted per connection.                                                 *)
(***************************************************************************)
EXTENDS Integers, Sequences, FiniteSets, TLC

(***************************************************************************)
(* Bounds of the model                                                     *)
(***************************************************************************)
MaxClock == 2
MaxCodes == 2
MaxPlainCodes == 1
MaxTokens == 2
MaxRegistrations == 1
MaxChunks == 1
MaxTokenConns == 2
MaxTokenReqs == 2
MaxSessions == 2
MaxChannels == 1
MaxRpcStreams == 1
MaxHeartbeats == 1
MaxMcpConns == 2
MaxMcpReqs == 2
MaxRequestId == 1
MaxLifetimes == 1

(***************************************************************************)
(* Program constants                                                       *)
(***************************************************************************)
CODE_TTL == 600000
TOKEN_TTL == 3600000
EXPIRES_IN == 3600
SESSION_TIMEOUT == 30 * 60 * 1000
\* period of the keepAlive timer of a /sse stream, in milliseconds
HEARTBEAT_INTERVAL == 15000
\* inputSchema.properties.limit.maximum of both tools
MAX_LIMIT == 100
\* period of the keepAlive timer of a stream opened by GET on the rpc endpoint
PING_INTERVAL == 30000

\* JavaScript null / undefined for string-valued fields
Null == "null"
Undefined == "undefined"
\* `${PROTOCOL}/callback`
DefaultCallback == "https://server/callback"

TokenConns == 1..MaxTokenConns
McpConns == 1..MaxMcpConns
RequestIds == 1..MaxRequestId

\* Session identifiers: randomUUID() values, or whatever a client puts in Mcp-Session-Id
Uuid(n) == [kind |-> "uuid", n |-> n]
ClientChosenId == [kind |-> "client", n |-> 0]
NoHeader == [kind |-> "absent", n |-> 0]

\* The keys of the handler table of createMCPHandlers, and a method that is not a key
HandlerTable == {"initialize", "tools/list", "tools/call", "resources/list",
                 "resources/read", "prompts/list", "prompts/get",
                 "notifications/initialized", "ping"}
\* Property names that mcpHandlers inherits from Object.prototype: the value found is
\* the function Object, resp. the prototype object itself
PrototypeMethods == {"constructor", "__proto__"}
Methods == HandlerTable \cup PrototypeMethods \cup {"unknown/method"}
\* params.name of tools/call and prompts/get
Names == {"list_calls", "retrieve_transcripts", "analyze_calls", "other"}

\* Client identifiers a request may name, and the identifiers /register generates
RequestClientIds == {"cA", "cB"}
GeneratedClientId(n) == IF n = 1 THEN "client_1" ELSE IF n = 2 THEN "client_2" ELSE "client_3"
RedirectUris == {"https://cb/x"}
\* A second callback, and a redirect_uri that new URL() does not accept
OtherRedirectUris == {"https://cb/y"}
MalformedUri == "not a url"
\* state values: a non-empty string, or the empty string of `state=`
States == {"s1"}
EmptyState == ""

\* Secrets: `secret_${Date.now()}_${random}` generated by /register,
\* `secret_${clientId}` for auto-registered clients, or any string a request supplies.
GeneratedSecret(clientId) == [kind |-> "generated", of |-> clientId]
PlaceholderSecret(clientId) == [kind |-> "placeholder", of |-> clientId]
NoSecret == [kind |-> "null", of |-> Null]
WrongSecret == [kind |-> "supplied", of |-> "guess"]

\* Keys of the oauthTokens map: `auth_...` codes, `access_...` tokens; a request may also
\* carry no code or a string that was never issued.
AuthCode(n) == [kind |-> "auth", n |-> n]
AccessToken(n) == [kind |-> "access", n |-> n]
NoKey == [kind |-> "null", n |-> 0]
BogusKey == [kind |-> "bogus", n |-> 0]

VARIABLES
    now,            \* Date.now()
    running,        \* the node process is alive
    swept,          \* history: the session sweep has run since the clock last advanced
    oauthClients,   \* Map client_id -> client record
    oauthTokens,    \* Map key -> grant record; holds codes AND access tokens
    nextClient,     \* number of identifiers generated by /register, plus one
    nextCode,       \* number of authorization codes generated, plus one
    nextToken,      \* number of access tokens generated, plus one
    oauthResp,      \* response of the latest /register or /authorize request
    tokenConn,      \* per connection: POST /token request in flight
    lastExchange,   \* the latest completed POST /token request and its response
    overlapSeen,    \* history: some /token 'end' ran while another /token body was arriving
    tokenReqs,      \* number of POST /token requests started
    issued,         \* history: every authorization code issued by /authorize
    minted,         \* history: every access token minted, and the key it was minted for
    tally,          \* history: per key, outcomes of the exchanges that presented it in time
    gongConfigured, \* gongClient is not null (GONG_ACCESS_KEY and GONG_ACCESS_SECRET set)
    activeSessions, \* Map session id -> session object (by reference)
    sessionObjs,    \* the session objects ever allocated: lastActivity, initialized, sseResponse
    channels,       \* the event streams ever opened: socket state, timer and period, frames
    mcpConn,        \* per connection: POST request to the rpc endpoint in flight
    lastPost,       \* the latest completed POST to the rpc endpoint and its response
    mcpReqs         \* number of POST requests to the rpc endpoint started

oauthVars == <<oauthClients, oauthTokens, nextClient, nextCode, nextToken, oauthResp,
               tokenConn, lastExchange, overlapSeen, tokenReqs, issued, minted, tally>>
mcpVars == <<gongConfigured, activeSessions, sessionObjs, channels, mcpConn,
             lastPost, mcpReqs>>
vars == <<now, running, swept, oauthVars, mcpVars>>

----------------------------------------------------------------------------
(***************************************************************************)
(* Helpers                                                                 *)
(***************************************************************************)
\* Map.set / Map.delete on a function used as a Map
MapSet(m, k, v) == [x \in DOMAIN m \cup {k} |-> IF x = k THEN v ELSE m[x]]
MapDelete(m, k) == [x \in DOMAIN m \ {k} |-> m[x]]

\* URLSearchParams.get: the value of the first pair with that name, else null
RECURSIVE ParamGet(_, _, _)
ParamGet(pairs, name, absent) ==
    IF pairs = <<>> THEN absent
    ELSE IF Head(pairs).name = name THEN Head(pairs).value
    ELSE ParamGet(Tail(pairs), name, absent)

NoResp == [status |-> 0, error |-> Null, access_token |-> NoKey, token_type |-> Null,
           expires_in |-> 0, scope |-> Null]
NoExchange == [grant_type |-> Null, code |-> NoKey, client_id |-> Null,
               code_present |-> FALSE, code_expired |-> FALSE,
               secret_matches |-> FALSE, resp |-> NoResp]
ErrorResp(status, error) == [NoResp EXCEPT !.status = status, !.error = error]
\* The query of GET /authorize as the handler reads it
AuthorizeRequest(clientId, redirectUri, state) ==
    [client_id |-> clientId, redirect_uri |-> redirectUri, state |-> state]
NoAuthorizeRequest == AuthorizeRequest(Null, Null, Null)
\* The response of /register or /authorize: status, JSON body fields, and for a 302 the
\* concurrent: the request was answered while a protocol handler waited for ToolBackend
\* Location (its base URL and the code and state parameters of its query; Null = absent)
NoOAuthResp == [endpoint |-> "none", status |-> 0, error |-> Null, client_id |-> Null,
                client_secret |-> NoSecret, redirect_uris |-> <<>>,
                location |-> Null, code |-> NoKey, state |-> Null,
                request |-> NoAuthorizeRequest, concurrent |-> FALSE]
IdleConn == [phase |-> "idle", chunks |-> 0]
NoTally == [ok |-> 0, denied |-> 0, other |-> 0]

\* A JSON-RPC frame; id NoId stands for a frame without id (request.id undefined),
\* id NullId for the literal null of the parse-error frame
NoId == 0
NullId == -1
\* sessionId is the session a handshake frame names, tools the catalog of a tools/list
\* result
NoFrame == [kind |-> "none", id |-> NoId, code |-> 0, sessionId |-> NoHeader, tools |-> <<>>]
ResultFrame(id) == [NoFrame EXCEPT !.kind = "result", !.id = id]
ErrorFrame(id, code) == [NoFrame EXCEPT !.kind = "error", !.id = id, !.code = code]
\* The request object itself, serialized as the response
EchoFrame(id) == [NoFrame EXCEPT !.kind = "request", !.id = id]
\* params.arguments.limit of a tools/call: absent, or a number
NoLimit == [present |-> FALSE, value |-> 0]
Limit(n) == [present |-> TRUE, value |-> n]
NoMessage == [json |-> "none", id |-> NoId, method |-> Null, hasParams |-> FALSE,
              name |-> Null, args |-> "missing", limit |-> NoLimit]
\* resHeader: the Mcp-Session-Id header set on the response
\* authorization: the Authorization header of the request (what authHeader holds)
\* forwarded: the limit in the ToolBackend request this connection waits for
\* overtaken: while this request waited for ToolBackend, the reply to a request of the
\* same session that was received later was written to the session's SSE stream
IdleMcpConn == [phase |-> "idle", chunks |-> 0, header |-> NoHeader,
                sessionId |-> NoHeader, session |-> 0,
                request |-> NoMessage, liveAtDispatch |-> FALSE, overtaken |-> FALSE,
                forwarded |-> NoLimit, resHeader |-> NoHeader, authorization |-> NoKey]
\* header: the Mcp-Session-Id header of the response
\* concurrent: the POST was received and answered while the handler of another
\* connection was waiting for ToolBackend
\* authorization: the Authorization header the POST carried
NoPost == [request |-> NoMessage, sessionId |-> NoHeader, status |-> 0, body |-> "none",
           frame |-> NoFrame, dispatched |-> NoFrame, awaited |-> FALSE,
           backendFault |-> FALSE, liveAtDispatch |-> FALSE, overtaken |-> FALSE,
           concurrent |-> FALSE, header |-> NoHeader, authorization |-> NoKey]

Init ==
    /\ now = 0
    /\ running = TRUE
    /\ swept = FALSE
    /\ oauthClients = << >>
    /\ oauthTokens = << >>
    /\ nextClient = 1
    /\ nextCode = 1
    /\ nextToken = 1
    /\ oauthResp = NoOAuthResp
    /\ tokenConn = [i \in TokenConns |-> IdleConn]
    /\ lastExchange = NoExchange
    /\ overlapSeen = FALSE
    /\ tokenReqs = 0
    /\ issued = << >>
    /\ minted = << >>
    /\ tally = << >>
    /\ gongConfigured \in BOOLEAN
    /\ activeSessions = << >>
    /\ sessionObjs = << >>
    /\ channels = << >>
    /\ mcpConn = [i \in McpConns |-> IdleMcpConn]
    /\ lastPost = NoPost
    /\ mcpReqs = 0

----------------------------------------------------------------------------
(***************************************************************************)
(* Time                                                                    *)
(***************************************************************************)
\* Time passes by d milliseconds, up to the horizon of the model
Advance(d, horizon) ==
    /\ now + d <= horizon
    /\ now' = now + d

TickOAuth ==
    /\ running
    /\ Advance(CODE_TTL, MaxClock * CODE_TTL)
    /\ swept' = FALSE
    /\ UNCHANGED <<running, oauthVars, mcpVars>>

TickMcp ==
    /\ running
    /\ Advance(SESSION_TIMEOUT, MaxClock * SESSION_TIMEOUT)
    /\ swept' = FALSE
    /\ UNCHANGED <<running, oauthVars, mcpVars>>

\* Time passes the lifetime of an access token: expires_at is Date.now() + 3600000
TickLifetime ==
    /\ running
    /\ Advance(TOKEN_TTL + 1, MaxLifetimes * (TOKEN_TTL + 1))
    /\ swept' = FALSE
    /\ UNCHANGED <<running, oauthVars, mcpVars>>

----------------------------------------------------------------------------
(***************************************************************************)
(* OAuth: POST /register (handleOAuthRegistration, the 'end' callback; the *)
(* 'data' callbacks only append to the body)                               *)
(***************************************************************************)
ClientRecord(clientId, secret, uris) ==
    [client_id |-> clientId, client_secret |-> secret, redirect_uris |-> uris,
     grant_types |-> <<"authorization_code">>, response_types |-> <<"code">>,
     scope |-> "gong:read"]

\* Bodies a client may POST to /register: not JSON, the JSON value null, an object
\* without redirect_uris, an object with redirect_uris
RegistrationBodies ==
    {[kind |-> "malformed", redirect_uris |-> <<>>],
     [kind |-> "null", redirect_uris |-> <<>>],
     [kind |-> "object", redirect_uris |-> <<>>]}
    \cup {[kind |-> "object", redirect_uris |-> <<u>>] : u \in RedirectUris}

\* JSON.parse(body) followed by clientData.redirect_uris throws for these bodies
RegistrationThrows(body) == body.kind \in {"malformed", "null"}

\* Some handleToolCall is suspended at its await of the ToolBackend call
AnyAwaiting == \E j \in McpConns : mcpConn[j].phase = "awaiting"

OAuthRegistration(body) ==
    /\ running
    /\ IF RegistrationThrows(body)
       THEN /\ oauthResp' = [NoOAuthResp EXCEPT !.endpoint = "register", !.status = 400,
                                                 !.error = "invalid_request",
                                                 !.concurrent = AnyAwaiting]
            /\ UNCHANGED <<oauthClients, nextClient>>
       ELSE /\ nextClient <= MaxRegistrations
            /\ LET clientId == GeneratedClientId(nextClient)
                   clientSecret == GeneratedSecret(clientId)
                   uris == IF body.redirect_uris = <<>> THEN <<DefaultCallback>>
                           ELSE body.redirect_uris
               IN  /\ oauthClients' = MapSet(oauthClients, clientId,
                                             ClientRecord(clientId, clientSecret, uris))
                   /\ oauthResp' = [NoOAuthResp EXCEPT !.endpoint = "register",
                                        !.status = 201, !.client_id = clientId,
                                        !.client_secret = clientSecret,
                                        !.redirect_uris = <<DefaultCallback>>,
                                        !.concurrent = AnyAwaiting]
            /\ nextClient' = nextClient + 1
    /\ UNCHANGED <<mcpVars, swept, now, running, oauthTokens, nextCode, nextToken, tokenConn, lastExchange,
                   overlapSeen, tokenReqs, issued, minted, tally>>

Register == \E body \in RegistrationBodies : OAuthRegistration(body)

(***************************************************************************)
(* OAuth: GET /authorize (handleOAuthAuthorization)                        *)
(***************************************************************************)
\* redirectUri || `${PROTOCOL}/callback`
EffectiveRedirect(redirectUri) == IF redirectUri = Null THEN DefaultCallback ELSE redirectUri

\* The grant record stored under a new authorization code
CodeRecord(clientId, redirectUri, t) ==
    [client_id |-> clientId, redirect_uri |-> redirectUri, scope |-> "gong:read",
     expires_at |-> t + CODE_TTL]

AutoRegisterNever(clients, clientId, secret, uris) == clients

AutoRegisterAlways(clients, clientId, secret, uris) ==
    MapSet(clients, clientId, ClientRecord(clientId, secret, uris))

\* if (!oauthClients.has(clientId)) oauthClients.set(clientId, {...})
AutoRegister(clients, clientId, secret, uris) ==
    IF clientId \notin DOMAIN clients
    THEN MapSet(clients, clientId, ClientRecord(clientId, secret, uris))
    ELSE clients

\* new URL(u) returns; it throws a TypeError for a string that is no absolute URL
UrlParses(u) == u # MalformedUri

\* if (state) callback.searchParams.set('state', state): the state parameter of the
\* Location, Null when none is set
LocationState(state) == IF state = Null \/ state = EmptyState THEN Null ELSE state

ClientIdMissingNever(clientId) == FALSE

\* !clientId
ClientIdMissing(clientId) == clientId = Null \/ clientId = ""

\* handleOAuthAuthorization. The exception of new URL() leaves the async request
\* listener of createHTTPMCPServer as an unhandled rejection, which ends the process
\* (node:20 default), after the client and the code were stored and before any response.
OAuthAuthorization(clientId, redirectUri, state) ==
    LET request == AuthorizeRequest(clientId, redirectUri, state)
    IN
    /\ running
    /\ IF ClientIdMissing(clientId)
       THEN /\ oauthResp' = [NoOAuthResp EXCEPT !.endpoint = "authorize", !.status = 400,
                                                 !.error = "invalid_request",
                                                 !.request = request]
            /\ UNCHANGED <<oauthClients, oauthTokens, nextCode, issued, running>>
       ELSE /\ nextCode <= MaxCodes
            /\ oauthClients' = AutoRegister(oauthClients, clientId,
                                            PlaceholderSecret(clientId),
                                            <<EffectiveRedirect(redirectUri)>>)
            /\ LET authCode == AuthCode(nextCode)
               IN  /\ oauthTokens' = MapSet(oauthTokens, authCode,
                                            CodeRecord(clientId, redirectUri, now))
                   /\ issued' = MapSet(issued, authCode,
                                       [client_id |-> clientId, issued_at |-> now])
                   /\ IF UrlParses(EffectiveRedirect(redirectUri))
                      THEN /\ oauthResp' = [NoOAuthResp EXCEPT !.endpoint = "authorize",
                                                !.status = 302,
                                                !.location = EffectiveRedirect(redirectUri),
                                                !.code = authCode,
                                                !.state = LocationState(state),
                                                !.request = request]
                           /\ running' = running
                      ELSE /\ oauthResp' = [NoOAuthResp EXCEPT !.endpoint = "authorize",
                                                !.request = request]
                           /\ running' = FALSE
            /\ nextCode' = nextCode + 1
    /\ UNCHANGED <<mcpVars, swept, now, nextClient, nextToken, tokenConn, lastExchange,
                   overlapSeen, tokenReqs, minted, tally>>

Authorize ==
    \E clientId \in {Null} \cup RequestClientIds \cup DOMAIN oauthClients,
       redirectUri \in {Null, MalformedUri} \cup RedirectUris \cup OtherRedirectUris,
       state \in {Null, EmptyState} \cup States :
        OAuthAuthorization(clientId, redirectUri, state)

\* /authorize requests that all carry a redirect_uri and no state (the token endpoint
\* reads neither)
AuthorizePlain ==
    /\ nextCode <= MaxPlainCodes
    /\ \E clientId \in {Null} \cup RequestClientIds \cup DOMAIN oauthClients,
          redirectUri \in RedirectUris :
           OAuthAuthorization(clientId, redirectUri, Null)

(***************************************************************************)
(* OAuth: POST /token (handleOAuthToken)                                   *)
(***************************************************************************)
Pair(name, value) == [name |-> name, value |-> value]

\* The form body a client sends: the pairs it chose to include, in order
FormBody(grantType, code, clientId, clientSecret) ==
    (IF grantType = Null THEN <<>> ELSE <<Pair("grant_type", grantType)>>)
    \o (IF code = NoKey THEN <<>> ELSE <<Pair("code", code)>>)
    \o (IF clientId = Null THEN <<>> ELSE <<Pair("client_id", clientId)>>)
    \o (IF clientSecret = NoSecret THEN <<>> ELSE <<Pair("client_secret", clientSecret)>>)

CodeExpiredFlipped(tokenData, t) == tokenData.expires_at > t

CodeExpiredNever(tokenData, t) == FALSE

\* tokenData.expires_at < Date.now()
CodeExpired(tokenData, t) == tokenData.expires_at < t

TokenRecordShortLived(clientId, scope, t) ==
    [client_id |-> clientId, redirect_uri |-> Undefined, scope |-> scope,
     expires_at |-> t + CODE_TTL]

\* The grant record stored under a new access token
TokenRecord(clientId, scope, t) ==
    [client_id |-> clientId, redirect_uri |-> Undefined, scope |-> scope,
     expires_at |-> t + TOKEN_TTL]

ConsumeCodeKept(tokens, code) == tokens

\* oauthTokens.delete(code) after the access token was stored
ConsumeCode(tokens, code) == MapDelete(tokens, code)

GrantRejectedAnyType(grantType, code, tokens) ==
    \/ code = NoKey
    \/ code \notin DOMAIN tokens

\* The first check of the handler: grant type, code present, code in the store
GrantRejected(grantType, code, tokens) ==
    \/ grantType # "authorization_code"
    \/ code = NoKey
    \/ code \notin DOMAIN tokens

RejectGrantConsuming(tokens, code) == MapDelete(tokens, code)

\* The first check failed: the handler answers and returns, the store is as it was
RejectGrant(tokens, code) == tokens

\* History: the exchange presented an issued authorization code with the right grant
\* type no later than 600000 ms after the code was issued
PresentedInTime(grantType, code) ==
    /\ grantType = "authorization_code"
    /\ code \in DOMAIN issued
    /\ now <= issued[code].issued_at + 600000

Bump(code, field) ==
    LET old == IF code \in DOMAIN tally THEN tally[code] ELSE NoTally
    IN  MapSet(tally, code, [old EXCEPT ![field] = @ + 1])

TokenStart(i) ==
    /\ running
    /\ tokenConn[i].phase = "idle"
    /\ tokenReqs < MaxTokenReqs
    /\ tokenReqs' = tokenReqs + 1
    /\ tokenConn' = [tokenConn EXCEPT ![i] = [IdleConn EXCEPT !.phase = "receiving"]]
    /\ UNCHANGED <<mcpVars, swept, now, running, oauthClients, oauthTokens, nextClient, nextCode, nextToken,
                   oauthResp, lastExchange, overlapSeen, issued, minted, tally>>

\* req.on('data', chunk => body += chunk)
TokenData(i) ==
    /\ running
    /\ tokenConn[i].phase = "receiving"
    /\ tokenConn[i].chunks < MaxChunks
    /\ tokenConn' = [tokenConn EXCEPT ![i].chunks = @ + 1]
    /\ UNCHANGED <<mcpVars, swept, now, running, oauthClients, oauthTokens, nextClient, nextCode, nextToken,
                   oauthResp, lastExchange, overlapSeen, tokenReqs, issued, minted, tally>>

\* req.on('end', ...) with the received body
OAuthToken(i, body) ==
    LET grantType == ParamGet(body, "grant_type", Null)
        code == ParamGet(body, "code", NoKey)
        clientId == ParamGet(body, "client_id", Null)
        clientSecret == ParamGet(body, "client_secret", NoSecret)
        \* history: the code was in the store when 'end' ran; it was presented later
        \* than 600000 ms after its issue; the secret sent is the one stored for the
        \* client the code was issued to
        done(resp) == [grant_type |-> grantType, code |-> code, client_id |-> clientId,
                       code_present |-> (code \in DOMAIN oauthTokens),
                       code_expired |-> (code \in DOMAIN issued
                                           /\ now > issued[code].issued_at + 600000),
                       secret_matches |-> (/\ code \in DOMAIN issued
                                           /\ issued[code].client_id \in DOMAIN oauthClients
                                           /\ oauthClients[issued[code].client_id].client_secret
                                                = clientSecret),
                       resp |-> resp]
        count(resp) == IF PresentedInTime(grantType, code)
                       THEN Bump(code, IF resp.status = 200 THEN "ok"
                                       ELSE IF resp.error = "invalid_grant" THEN "denied"
                                       ELSE "other")
                       ELSE tally
    IN
    /\ running
    /\ tokenConn[i].phase = "receiving"
    /\ tokenConn' = [tokenConn EXCEPT ![i] = IdleConn]
    /\ overlapSeen' = (overlapSeen \/ \E j \in TokenConns \ {i} :
                                        tokenConn[j].phase = "receiving")
    /\ IF GrantRejected(grantType, code, oauthTokens)
       THEN /\ oauthTokens' = RejectGrant(oauthTokens, code)
            /\ lastExchange' = done(ErrorResp(400, "invalid_grant"))
            /\ tally' = count(ErrorResp(400, "invalid_grant"))
            /\ UNCHANGED <<oauthClients, nextToken, minted>>
       ELSE IF CodeExpired(oauthTokens[code], now)
       THEN /\ oauthTokens' = MapDelete(oauthTokens, code)
            /\ lastExchange' = done(ErrorResp(400, "invalid_grant"))
            /\ tally' = count(ErrorResp(400, "invalid_grant"))
            /\ UNCHANGED <<oauthClients, nextToken, minted>>
       ELSE LET tokenData == oauthTokens[code]
                clients == AutoRegister(oauthClients, clientId,
                               IF clientSecret = NoSecret
                               THEN PlaceholderSecret(clientId) ELSE clientSecret,
                               <<DefaultCallback>>)
                accessToken == AccessToken(nextToken)
                resp == [status |-> 200, error |-> Null, access_token |-> accessToken,
                         token_type |-> "Bearer", expires_in |-> EXPIRES_IN,
                         scope |-> tokenData.scope]
            IN  /\ nextToken <= MaxTokens
                /\ oauthClients' = clients
                /\ oauthTokens' = ConsumeCode(
                       MapSet(oauthTokens, accessToken,
                              TokenRecord(clientId, tokenData.scope, now)), code)
                /\ nextToken' = nextToken + 1
                /\ minted' = MapSet(minted, accessToken,
                                    [from |-> code, code_client |-> tokenData.client_id])
                /\ lastExchange' = done(resp)
                /\ tally' = count(resp)
    /\ UNCHANGED <<mcpVars, swept, now, running, nextClient, nextCode, oauthResp, tokenReqs, issued>>

\* Secrets a client may send: none, a guess, or the secret stored for the client it names
SecretsFor(clientId) ==
    {NoSecret, WrongSecret}
    \cup (IF clientId \in DOMAIN oauthClients THEN {oauthClients[clientId].client_secret}
          ELSE {})

TokenEnd(i) ==
    \E grantType \in {"authorization_code", "refresh_token"},
       code \in {NoKey, BogusKey} \cup DOMAIN issued \cup DOMAIN minted,
       clientId \in {Null} \cup RequestClientIds \cup DOMAIN oauthClients :
      \E clientSecret \in SecretsFor(clientId) :
        OAuthToken(i, FormBody(grantType, code, clientId, clientSecret))

\* Exchanges of a client that follows the protocol: an issued code, the right grant
\* type, no secret (a public client)
TokenEndPlain(i) ==
    \E code \in DOMAIN issued, clientId \in RequestClientIds \cup DOMAIN oauthClients :
        OAuthToken(i, FormBody("authorization_code", code, clientId, NoSecret))

----------------------------------------------------------------------------
InitToken == Init /\ gongConfigured

NextToken ==
    \/ TickOAuth
    \/ Register
    \/ AuthorizePlain
    \/ \E i \in TokenConns : TokenStart(i)
    \/ \E i \in TokenConns : TokenData(i)
    \/ \E i \in TokenConns : TokenEnd(i)

SpecToken == InitToken /\ [][NextToken]_vars

\* The authorization engine with every /authorize query, token requests that do not
\* overlap, and no code old enough to expire
NextAuthorize ==
    \/ Register
    \/ Authorize
    \/ TokenStart(1)
    \/ TokenEndPlain(1)

SpecAuthorize == InitToken /\ [][NextAuthorize]_vars

----------------------------------------------------------------------------
(***************************************************************************)
(* Properties of the token endpoint                                        *)
(***************************************************************************)
\* The step is the 'end' callback of the /token request on connection i
TokenEndStep(i) == tokenConn[i].phase = "receiving" /\ tokenConn'[i].phase = "idle"

\* Some access token was minted for this key
Consumed(code) == \E t \in DOMAIN minted : minted[t].from = code

InvalidGrant == ErrorResp(400, "invalid_grant")

\* C1: an authorization code is exchanged successfully at most once, and every exchange
\* that presents a code after its successful exchange answers 400 invalid_grant and
\* mints no token.
C1_CodeSingleUse ==
    [][\A i \in TokenConns :
          TokenEndStep(i) =>
            /\ \A t1, t2 \in DOMAIN minted' :
                  (minted'[t1].from \in DOMAIN issued /\ minted'[t1].from = minted'[t2].from)
                     => t1 = t2
            /\ (lastExchange'.code \in DOMAIN issued /\ Consumed(lastExchange'.code))
                  => /\ lastExchange'.resp = InvalidGrant
                     /\ minted' = minted
                     /\ nextToken' = nextToken
                     /\ DOMAIN oauthTokens' \subseteq DOMAIN oauthTokens]_vars

\* A consumed, unexpired code was presented again with the right grant type and refused
C1_Witness ==
    /\ lastExchange.code \in DOMAIN issued
    /\ Consumed(lastExchange.code)
    /\ lastExchange.grant_type = "authorization_code"
    /\ ~lastExchange.code_expired
    /\ lastExchange.resp = InvalidGrant

\* C2: of the /token requests that present the same authorization code in time, in
\* whatever order their 'data' and 'end' callbacks interleave, exactly one answers 200
\* and every other one answers invalid_grant.
C2_ExactlyOneConcurrentExchange ==
    \A code \in DOMAIN tally :
        /\ tally[code].ok = 1
        /\ tally[code].other = 0
        /\ Cardinality({t \in DOMAIN minted : minted[t].from = code}) = 1

\* Two requests overlapped, both presented the one code in time: one 200, one invalid_grant
C2_Witness ==
    /\ overlapSeen
    /\ tokenReqs = 2
    /\ \A i \in TokenConns : tokenConn[i].phase = "idle"
    /\ \E code \in DOMAIN tally : tally[code] = [ok |-> 1, denied |-> 1, other |-> 0]

\* C3: a code presented later than 600000 ms after its issue answers invalid_grant, the
\* response of an absent code, and mints no token (no key is added to the store).
C3_ExpiredCodeRejected ==
    [][\A i \in TokenConns :
          (TokenEndStep(i) /\ lastExchange'.code_expired)
            => /\ lastExchange'.resp = InvalidGrant
               /\ minted' = minted
               /\ nextToken' = nextToken
               /\ DOMAIN oauthTokens' \subseteq DOMAIN oauthTokens]_vars

\* A never-consumed code was presented after its window, still in the store, and refused
C3_Witness ==
    /\ lastExchange.code \in DOMAIN issued
    /\ lastExchange.code_expired
    /\ lastExchange.code_present
    /\ lastExchange.grant_type = "authorization_code"
    /\ ~Consumed(lastExchange.code)
    /\ lastExchange.resp = InvalidGrant

\* C8: an exchange of a valid unexpired code whose client_secret differs from the secret
\* stored for the code's client answers invalid_client and mints no token.
C8_SecretMismatchRejected ==
    (/\ lastExchange.grant_type = "authorization_code"
     /\ lastExchange.code \in DOMAIN issued
     /\ lastExchange.code_present
     /\ ~lastExchange.code_expired
     /\ ~lastExchange.secret_matches)
        => lastExchange.resp = ErrorResp(400, "invalid_client")

\* C9: every stored access token is bound to the client recorded on the key it was
\* minted for.
C9_TokenBoundToCodeClient ==
    \A t \in DOMAIN minted :
        t \in DOMAIN oauthTokens => oauthTokens[t].client_id = minted[t].code_client

\* C10: no more access tokens are minted than authorization codes were issued, and an
\* access-token value presented as the code is refused with invalid_grant.
C10_TokensComeFromCodes ==
    /\ Cardinality(DOMAIN minted) <= Cardinality(DOMAIN issued)
    /\ lastExchange.code.kind = "access" => lastExchange.resp = InvalidGrant

\* C11: a successful exchange answers 200 with a new access_token, token_type Bearer,
\* expires_in 3600 and the scope of the code it consumed, and stores under that
\* access_token a record with that scope that expires 60 minutes after the exchange,
\* which is expires_in seconds.
C11_SuccessfulExchangeResponse ==
    [][\A i \in TokenConns :
          (TokenEndStep(i) /\ lastExchange'.resp.status = 200)
            => LET resp == lastExchange'.resp
                   code == lastExchange'.code
               IN  /\ resp.error = Null
                   /\ resp.token_type = "Bearer"
                   /\ resp.expires_in = 3600
                   /\ code \in DOMAIN oauthTokens
                   /\ resp.scope = oauthTokens[code].scope
                   /\ resp.access_token \notin DOMAIN oauthTokens
                   /\ resp.access_token \in DOMAIN oauthTokens'
                   /\ oauthTokens'[resp.access_token].scope = resp.scope
                   /\ oauthTokens'[resp.access_token].expires_at = now + 60 * 60 * 1000
                   /\ oauthTokens'[resp.access_token].expires_at
                        = now + resp.expires_in * 1000]_vars

\* An issued code was exchanged some time after the start and its token is in the store
C11_Witness ==
    /\ lastExchange.resp.status = 200
    /\ lastExchange.code \in DOMAIN issued
    /\ now > 0
    /\ lastExchange.resp.access_token \in DOMAIN oauthTokens
    /\ oauthTokens[lastExchange.resp.access_token].expires_at = now + TOKEN_TTL

\* C12: the grant_type check and the code checks come before any check of the client:
\* an exchange with another grant_type, or with an absent or expired code, answers
\* invalid_grant and mints nothing, whatever code and client credentials it carries.
C12_EarliestCheckDecides ==
    [][\A i \in TokenConns :
          ( /\ TokenEndStep(i)
            /\ \/ lastExchange'.grant_type # "authorization_code"
               \/ ~lastExchange'.code_present
               \/ lastExchange'.code_expired )
            => /\ lastExchange'.resp = InvalidGrant
               /\ minted' = minted
               /\ nextToken' = nextToken]_vars

\* A live code was presented with another grant_type and with credentials that are not
\* those of the code's client: the answer was invalid_grant
C12_Witness ==
    /\ lastExchange.grant_type = "refresh_token"
    /\ lastExchange.code \in DOMAIN issued
    /\ lastExchange.code_present
    /\ ~lastExchange.code_expired
    /\ ~lastExchange.secret_matches
    /\ lastExchange.resp = InvalidGrant

----------------------------------------------------------------------------
(***************************************************************************)
(* Properties of registration and authorization                            *)
(***************************************************************************)
\* The step is a GET /authorize (two equal answers in a row change nothing)
AuthorizeStep ==
    /\ oauthResp'.endpoint = "authorize"
    /\ oauthResp' # oauthResp \/ nextCode' # nextCode

\* C13: GET /authorize without client_id answers 400 invalid_request and leaves the
\* client store and the grant store as they were.
C13_NoClientIdRejected ==
    [][(AuthorizeStep /\ oauthResp'.request.client_id = Null)
          => /\ oauthResp'.status = 400
             /\ oauthResp'.error = "invalid_request"
             /\ oauthClients' = oauthClients
             /\ oauthTokens' = oauthTokens
             /\ issued' = issued]_vars

\* A query without client_id, carrying a state and a redirect_uri that is no URL, was
\* answered 400 while a client and a code were already stored
C13_Witness ==
    /\ oauthResp.endpoint = "authorize"
    /\ oauthResp.request.client_id = Null
    /\ oauthResp.request.redirect_uri = MalformedUri
    /\ oauthResp.request.state \in States
    /\ oauthResp.status = 400
    /\ DOMAIN oauthClients # {}
    /\ DOMAIN issued # {}

\* C14: GET /authorize naming a client_id that has no record answers 302 with a stored
\* code and creates the record of that client, whose redirect URIs are exactly the
\* redirect_uri of the query.
C14_UnknownClientAutoRegistered ==
    [][( /\ AuthorizeStep
         /\ oauthResp'.request.client_id # Null
         /\ oauthResp'.request.client_id \notin DOMAIN oauthClients )
          => LET request == oauthResp'.request
             IN  /\ oauthResp'.status = 302
                 /\ oauthResp'.code \in DOMAIN oauthTokens'
                 /\ request.client_id \in DOMAIN oauthClients'
                 /\ request.redirect_uri # Null
                      => oauthClients'[request.client_id].redirect_uris
                           = <<request.redirect_uri>>]_vars

\* C15: a GET /authorize answered 302 adds exactly one code to the grant store, owned
\* by the client_id of the query, and its Location is the redirect_uri of the query
\* with that code and with the state of the query: the same value when the query has
\* a state parameter, no state parameter when it has none.
C15_RedirectCarriesCodeAndState ==
    [][(AuthorizeStep /\ oauthResp'.status = 302)
          => LET request == oauthResp'.request
                 code == oauthResp'.code
             IN  /\ DOMAIN oauthTokens' = DOMAIN oauthTokens \cup {code}
                 /\ code \notin DOMAIN oauthTokens
                 /\ \A k \in DOMAIN oauthTokens : oauthTokens'[k] = oauthTokens[k]
                 /\ oauthTokens'[code].client_id = request.client_id
                 /\ request.redirect_uri # Null
                      => oauthResp'.location = request.redirect_uri
                 /\ oauthResp'.state = request.state]_vars

\* C16: the redirect_uri recorded on the code issued by a GET /authorize is the URI its
\* 302 Location points to, also when the query has no redirect_uri and the Location is
\* the default callback.
C16_CodeBoundToEffectiveRedirect ==
    [][(AuthorizeStep /\ oauthResp'.status = 302)
          => /\ oauthResp'.code \in DOMAIN oauthTokens'
             /\ oauthTokens'[oauthResp'.code].redirect_uri = oauthResp'.location]_vars

\* C17: no step of /register, /authorize or /token changes or removes a client record
\* that exists: every field of it stays as it was created.
C17_ClientRecordsImmutable ==
    [][\A id \in DOMAIN oauthClients :
          /\ id \in DOMAIN oauthClients'
          /\ oauthClients'[id] = oauthClients[id]]_vars

\* A client with a record asked for a code with a redirect_uri that is not the one on
\* its record, after a 200 exchange that named the same client: the record is as created
C17_Witness ==
    /\ oauthResp.endpoint = "authorize"
    /\ oauthResp.status = 302
    /\ oauthResp.request.client_id \in DOMAIN oauthClients
    /\ oauthClients[oauthResp.request.client_id].redirect_uris
         # <<EffectiveRedirect(oauthResp.request.redirect_uri)>>
    /\ lastExchange.resp.status = 200
    /\ lastExchange.client_id = oauthResp.request.client_id

\* C18: a POST /register answered 201 returns the record it stored: a generated
\* client_id that had no record before, its client_secret, and the redirect_uris stored
\* under it.
C18_RegistrationReturnsStoredRecord ==
    [][( /\ oauthResp'.endpoint = "register"
         /\ oauthResp'.status = 201
         /\ nextClient' # nextClient )
          => LET id == oauthResp'.client_id
             IN  /\ id \notin DOMAIN oauthClients
                 /\ id \in DOMAIN oauthClients'
                 /\ oauthClients'[id].client_id = id
                 /\ oauthClients'[id].client_secret = oauthResp'.client_secret
                 /\ oauthClients'[id].redirect_uris = oauthResp'.redirect_uris]_vars

----------------------------------------------------------------------------
(***************************************************************************)
(* Protocol transport: session registry and SSE push channels              *)
(***************************************************************************)
NewSession(t, initialized, sse) ==
    [lastActivity |-> t, initialized |-> initialized, sseResponse |-> sse]

\* Frames the server writes on an SSE stream besides responses
\* {type: 'connection', sessionId}, the first write of either kind of stream
ConnectionFrame(sessionId) == [NoFrame EXCEPT !.kind = "connection", !.sessionId = sessionId]
CapabilitiesFrame == [NoFrame EXCEPT !.kind = "capabilities"]
HeartbeatFrame == [NoFrame EXCEPT !.kind = "heartbeat"]
\* data: {"type":"ping"} of a stream opened by GET on the rpc endpoint
PingFrame == [NoFrame EXCEPT !.kind = "ping"]

\* The event streams opened at /sse ("sse") or by GET on the rpc endpoint ("rpc")
ChannelsVia(via) == {c \in 1..Len(channels) : channels[c].via = via}

SessionExpiredAtTimeout(session, t) == t - session.lastActivity >= SESSION_TIMEOUT

\* now.getTime() - session.lastActivity.getTime() > SESSION_TIMEOUT
SessionExpired(session, t) == t - session.lastActivity > SESSION_TIMEOUT

LiveChannelIgnoringDestroyed(session) == session.sseResponse

\* session.sseResponse && !session.sseResponse.destroyed: the channel to write to, or 0
LiveChannel(session) ==
    IF session.sseResponse # 0 /\ ~channels[session.sseResponse].destroyed
    THEN session.sseResponse ELSE 0

SseWriteOverwriting(frames, frame) == [frames EXCEPT ![Len(frames)] = frame]

\* res.write(`data: ${...}\n\n`) on an event stream: the frame follows what was written
SseWrite(frames, frame) == Append(frames, frame)

\* handleSSEConnection from the read of req.headers['authorization'] to the first two
\* frames: authHeader goes to the log line and nowhere else; a new session with the
\* response attached, the connection acknowledgment and the capabilities notification
\* written to the stream. The result is the session table and the streams.
OpenStream(authorization) ==
    LET obj == Len(sessionObjs) + 1
        chan == Len(channels) + 1
        sessionId == Uuid(obj)
    IN  [sessionObjs |-> Append(sessionObjs, NewSession(now, TRUE, chan)),
         activeSessions |-> MapSet(activeSessions, sessionId, obj),
         channels |-> Append(channels,
                  [via |-> "sse", sessionId |-> sessionId, destroyed |-> FALSE,
                   keepAlive |-> TRUE, interval |-> HEARTBEAT_INTERVAL, events |-> {},
                   missed |-> FALSE,
                   heartbeats |-> 0,
                   frames |-> <<ConnectionFrame(sessionId), CapabilitiesFrame>>])]

\* GET /sse (handleSSEConnection)
SseOpen(authorization) ==
    /\ running
    /\ Cardinality(ChannelsVia("sse")) < MaxChannels
    /\ Len(sessionObjs) < MaxSessions
    /\ sessionObjs' = OpenStream(authorization).sessionObjs
    /\ activeSessions' = OpenStream(authorization).activeSessions
    /\ channels' = OpenStream(authorization).channels
    /\ UNCHANGED <<now, running, swept, oauthVars, gongConfigured, mcpConn, lastPost, mcpReqs>>

\* The keepAlive interval of an event stream fires; a write to a destroyed response
\* reaches nobody
Heartbeat(c) ==
    /\ running
    /\ channels[c].keepAlive
    /\ channels[c].heartbeats < MaxHeartbeats
    /\ channels' = [channels EXCEPT
          ![c].heartbeats = @ + 1,
          ![c].frames = IF channels[c].destroyed THEN @
                        ELSE SseWrite(@, IF channels[c].via = "rpc" THEN PingFrame
                                         ELSE HeartbeatFrame)]
    /\ UNCHANGED <<now, running, swept, oauthVars, gongConfigured, activeSessions, sessionObjs, mcpConn,
                   lastPost, mcpReqs>>

\* The socket of an SSE connection goes away: res.destroyed becomes true and the
\* request will emit 'close', possibly preceded by 'aborted' or 'error'
SocketClose(c) ==
    /\ running
    /\ ~channels[c].destroyed
    /\ \E events \in {{"close"}, {"aborted", "close"}, {"error", "close"}} :
          channels' = [channels EXCEPT ![c].destroyed = TRUE, ![c].events = events]
    /\ UNCHANGED <<now, running, swept, oauthVars, gongConfigured, activeSessions, sessionObjs, mcpConn,
                   lastPost, mcpReqs>>

DetachChannelNever(objs, sessions, sessionId) == objs

DetachChannelByReference(objs, sessions, sessionId) ==
    [objs EXCEPT ![sessionId.n].sseResponse = 0]

\* cleanup() of handleSSEConnection after clearInterval: the session registered under
\* the id loses its SSE reference and stays in the Map
DetachChannel(objs, sessions, sessionId) ==
    IF sessionId \in DOMAIN sessions
    THEN [objs EXCEPT ![sessions[sessionId]].sseResponse = 0]
    ELSE objs

\* An event of the request of an event stream is emitted. At /sse the 'close', 'error'
\* and 'aborted' listeners run cleanup(); on the rpc endpoint only 'close' has a
\* listener, which clears the interval. missed records that a cleanup() found no session
\* under the stream's id.
Cleanup(c, event) ==
    /\ running
    /\ event \in channels[c].events
    /\ channels' = [channels EXCEPT
          ![c].events = @ \ {event},
          ![c].missed = @ \/ ( /\ channels[c].via = "sse"
                                /\ channels[c].sessionId \notin DOMAIN activeSessions ),
          ![c].keepAlive = IF channels[c].via = "rpc" /\ event # "close" THEN @ ELSE FALSE]
    /\ sessionObjs' = IF channels[c].via = "sse"
                      THEN DetachChannel(sessionObjs, activeSessions, channels[c].sessionId)
                      ELSE sessionObjs
    /\ UNCHANGED <<now, running, swept, oauthVars, gongConfigured, activeSessions, mcpConn, lastPost,
                   mcpReqs>>

\* The 5-minute setInterval of createHTTPMCPServer fires: evict the idle sessions
Sweep ==
    /\ running
    /\ activeSessions' =
          [id \in {x \in DOMAIN activeSessions :
                      ~SessionExpired(sessionObjs[activeSessions[x]], now)}
             |-> activeSessions[id]]
    /\ swept' = TRUE
    /\ UNCHANGED <<now, running, oauthVars, gongConfigured, sessionObjs, channels, mcpConn,
                   lastPost, mcpReqs>>

----------------------------------------------------------------------------
(***************************************************************************)
(* Protocol dispatch: POST to the rpc endpoint (handleMCPRequest)          *)
(***************************************************************************)
\* The bodies a client may POST: not JSON, the JSON value null, or a message object
\* with or without id and params
Message(id, method, hasParams, name, args) ==
    [json |-> "object", id |-> id, method |-> method, hasParams |-> hasParams,
     name |-> name, args |-> args, limit |-> NoLimit]

McpBodies ==
    {[NoMessage EXCEPT !.json = "malformed"], [NoMessage EXCEPT !.json = "null"]}
    \cup {Message(id, method, hasParams, Null, "missing") :
            id \in {NoId} \cup RequestIds,
            method \in Methods \ {"tools/call", "prompts/get"},
            hasParams \in BOOLEAN}
    \cup {Message(id, method, FALSE, Null, "missing") :
            id \in {NoId} \cup RequestIds, method \in {"tools/call", "prompts/get"}}
    \cup {Message(id, "prompts/get", TRUE, name, "missing") :
            id \in {NoId} \cup RequestIds, name \in {"analyze_calls", "other"}}
    \cup {Message(id, "tools/call", TRUE, name, args) :
            id \in {NoId} \cup RequestIds,
            name \in {"list_calls", "retrieve_transcripts", "other"},
            args \in {"missing", "invalid", "valid"}}

\* What a handler hands back: a frame, null, an exception, or a pending ToolBackend call
Returns(frame) == [kind |-> "frame", frame |-> frame]
ReturnsNull == [kind |-> "null", frame |-> NoFrame]
Throws == [kind |-> "throw", frame |-> NoFrame]
Awaits == [kind |-> "await", frame |-> NoFrame]

HandleToolCallUnguarded(request, configured) ==
    IF ~request.hasParams \/ ~configured THEN Throws
    ELSE IF request.args = "missing" THEN Returns(ErrorFrame(request.id, -32603))
    ELSE IF request.name \in {"list_calls", "retrieve_transcripts"}
         THEN IF request.args = "invalid" THEN Returns(ErrorFrame(request.id, -32603))
              ELSE Awaits
    ELSE Returns(ErrorFrame(request.id, -32601))

HandleToolCallUnchecked(request, configured) ==
    IF ~request.hasParams \/ ~configured THEN Returns(ErrorFrame(request.id, -32603))
    ELSE IF request.name \in {"list_calls", "retrieve_transcripts"} THEN Awaits
    ELSE Returns(ErrorFrame(request.id, -32601))

\* handleToolCall up to the ToolBackend call
HandleToolCall(request, configured) ==
    IF ~request.hasParams THEN Returns(ErrorFrame(request.id, -32603))
    ELSE IF ~configured THEN Returns(ErrorFrame(request.id, -32603))
    ELSE IF request.args = "missing" THEN Returns(ErrorFrame(request.id, -32603))
    ELSE IF request.name \in {"list_calls", "retrieve_transcripts"}
         THEN IF request.args = "invalid" THEN Returns(ErrorFrame(request.id, -32603))
              ELSE Awaits
    ELSE Returns(ErrorFrame(request.id, -32601))

\* [LIST_CALLS_TOOL, RETRIEVE_TRANSCRIPTS_TOOL], by tool name
ToolCatalog == <<"list_calls", "retrieve_transcripts">>

HandleToolsListEmpty(request) == Returns(ResultFrame(request.id))

\* handleToolsList: the result carries the whole catalog
HandleToolsList(request) ==
    Returns([ResultFrame(request.id) EXCEPT !.tools = ToolCatalog])

\* handleResourceRead: request.params.uri throws when params is absent
HandleResourceRead(request) ==
    IF request.hasParams THEN Returns(ResultFrame(request.id)) ELSE Throws

\* handlePromptGet: request.params?.name
HandlePromptGet(request) ==
    IF request.hasParams /\ request.name \in {"analyze_calls", "summarize_transcript"}
    THEN Returns(ResultFrame(request.id))
    ELSE Returns(ErrorFrame(request.id, -32602))

\* mcpHandlers[request.method], then the handler or the Method-not-found frame; the
\* lookup also finds inherited properties: Object(request) returns the request, and
\* calling the prototype object throws a TypeError
Dispatch(request, configured) ==
    IF request.method = "constructor" THEN Returns(EchoFrame(request.id))
    ELSE IF request.method = "__proto__" THEN Throws
    ELSE IF request.method \notin HandlerTable THEN Returns(ErrorFrame(request.id, -32601))
    ELSE IF request.method = "notifications/initialized" THEN ReturnsNull
    ELSE IF request.method = "tools/list" THEN HandleToolsList(request)
    ELSE IF request.method = "tools/call" THEN HandleToolCall(request, configured)
    ELSE IF request.method = "resources/read" THEN HandleResourceRead(request)
    ELSE IF request.method = "prompts/get" THEN HandlePromptGet(request)
    ELSE Returns(ResultFrame(request.id))

TouchNever(session, t) == session

\* session.lastActivity = new Date()
Touch(session, t) == [session EXCEPT !.lastActivity = t]

\* Session identifiers a client may send: none, one of its own, or any the server made
Headers == {NoHeader, ClientChosenId} \cup {Uuid(n) : n \in 1..Len(sessionObjs)}

\* Authorization headers a client may send: none, a bearer value the server never
\* issued, an access token it issued. Only SpecBearer sends any; the clients of the
\* other specifications send none (NoKey).
Authorizations == {NoKey, BogusKey} \cup DOMAIN minted

ResolveSessionBearerOnly(header, authorization) ==
    LET sessionId == IF header = NoHeader THEN Uuid(Len(sessionObjs) + 1) ELSE header
        known == sessionId \in DOMAIN activeSessions
        obj == IF known THEN activeSessions[sessionId] ELSE Len(sessionObjs) + 1
        live == /\ authorization \in DOMAIN oauthTokens
                /\ ~(oauthTokens[authorization].expires_at < now)
    IN  [sessionObjs |-> IF known
                         THEN IF live THEN [sessionObjs EXCEPT ![obj] = Touch(@, now)]
                              ELSE sessionObjs
                         ELSE Append(sessionObjs, NewSession(now, FALSE, 0)),
         activeSessions |-> IF known THEN activeSessions
                            ELSE MapSet(activeSessions, sessionId, obj),
         conn |-> [IdleMcpConn EXCEPT !.phase = "receiving", !.header = header,
                                      !.sessionId = sessionId, !.session = obj,
                                      !.resHeader = IF live THEN sessionId ELSE NoHeader,
                                      !.authorization = authorization]]

\* handleMCPRequest from the read of req.headers['authorization'] to the
\* Mcp-Session-Id response header: authHeader goes to the log line and nowhere else;
\* the session named by the request is got or created, touched, and named on the
\* response. The result is the session table and the connection's record.
ResolveSession(header, authorization) ==
    LET sessionId == IF header = NoHeader THEN Uuid(Len(sessionObjs) + 1) ELSE header
        known == sessionId \in DOMAIN activeSessions
        obj == IF known THEN activeSessions[sessionId] ELSE Len(sessionObjs) + 1
    IN  [sessionObjs |-> IF known THEN [sessionObjs EXCEPT ![obj] = Touch(@, now)]
                         ELSE Append(sessionObjs, NewSession(now, FALSE, 0)),
         activeSessions |-> IF known THEN activeSessions
                            ELSE MapSet(activeSessions, sessionId, obj),
         conn |-> [IdleMcpConn EXCEPT !.phase = "receiving", !.header = header,
                                      !.sessionId = sessionId, !.session = obj,
                                      !.resHeader = sessionId,
                                      !.authorization = authorization]]

McpStartQueued(i, header, authorization) ==
    /\ running
    /\ mcpConn[i].phase = "idle"
    /\ ~AnyAwaiting
    /\ mcpReqs < MaxMcpReqs
    /\ mcpReqs' = mcpReqs + 1
    /\ (header = NoHeader \/ header \notin DOMAIN activeSessions)
          => Len(sessionObjs) < MaxSessions
    /\ sessionObjs' = ResolveSession(header, authorization).sessionObjs
    /\ activeSessions' = ResolveSession(header, authorization).activeSessions
    /\ mcpConn' = [mcpConn EXCEPT ![i] = ResolveSession(header, authorization).conn]
    /\ UNCHANGED <<now, running, swept, oauthVars, gongConfigured, channels, lastPost>>

\* handleMCPRequest up to the registration of the body listeners: the Authorization
\* header is read, then the session is got or created and touched
McpStart(i, header, authorization) ==
    /\ running
    /\ mcpConn[i].phase = "idle"
    /\ mcpReqs < MaxMcpReqs
    /\ mcpReqs' = mcpReqs + 1
    /\ (header = NoHeader \/ header \notin DOMAIN activeSessions)
          => Len(sessionObjs) < MaxSessions
    /\ sessionObjs' = ResolveSession(header, authorization).sessionObjs
    /\ activeSessions' = ResolveSession(header, authorization).activeSessions
    /\ mcpConn' = [mcpConn EXCEPT ![i] = ResolveSession(header, authorization).conn]
    /\ UNCHANGED <<now, running, swept, oauthVars, gongConfigured, channels, lastPost>>

\* GET on the rpc endpoint: get or create the session, touch it, then open an event
\* stream when the Accept header includes text/event-stream (the session object is
\* not given the response), else answer the JSON ready message
McpGet(header, eventStream) ==
    /\ running
    /\ LET sessionId == IF header = NoHeader THEN Uuid(Len(sessionObjs) + 1) ELSE header
           known == sessionId \in DOMAIN activeSessions
           obj == IF known THEN activeSessions[sessionId] ELSE Len(sessionObjs) + 1
       IN  /\ ~known => Len(sessionObjs) < MaxSessions
           /\ sessionObjs' = IF known THEN [sessionObjs EXCEPT ![obj] = Touch(@, now)]
                             ELSE Append(sessionObjs, NewSession(now, FALSE, 0))
           /\ activeSessions' = IF known THEN activeSessions
                                ELSE MapSet(activeSessions, sessionId, obj)
           /\ IF eventStream
              THEN /\ Cardinality(ChannelsVia("rpc")) < MaxRpcStreams
                   /\ channels' = Append(channels,
                          [via |-> "rpc", sessionId |-> sessionId, destroyed |-> FALSE,
                           keepAlive |-> TRUE, interval |-> PING_INTERVAL,
                           events |-> {}, missed |-> FALSE, heartbeats |-> 0,
                           frames |-> <<ConnectionFrame(sessionId)>>])
              ELSE channels' = channels
    /\ UNCHANGED <<now, running, swept, oauthVars, gongConfigured, mcpConn, lastPost, mcpReqs>>

\* req.on('data', chunk => body += chunk.toString())
McpData(i) ==
    /\ running
    /\ mcpConn[i].phase = "receiving"
    /\ mcpConn[i].chunks < MaxChunks
    /\ mcpConn' = [mcpConn EXCEPT ![i].chunks = @ + 1]
    /\ UNCHANGED <<now, running, swept, oauthVars, gongConfigured, activeSessions, sessionObjs, channels,
                   lastPost, mcpReqs>>

\* The 'end' callback of connection i runs while another handler is suspended
OthersAwaiting(i) ==
    /\ mcpConn[i].phase = "receiving"
    /\ \E j \in McpConns \ {i} : mcpConn[j].phase = "awaiting"

\* The request of connection i is answered; pushed: its frame went to the SSE stream of
\* its session, ahead of the replies that handlers suspended earlier still owe
Settle(i, pushed) ==
    [j \in McpConns |->
        IF j = i THEN IdleMcpConn
        ELSE IF /\ pushed
                /\ mcpConn[i].phase = "receiving"
                /\ mcpConn[j].phase = "awaiting"
                /\ mcpConn[j].session = mcpConn[i].session
             THEN [mcpConn[j] EXCEPT !.overtaken = TRUE]
             ELSE mcpConn[j]]

\* The tail of the 'end' callback: write the response frame to the session's SSE stream
\* and acknowledge the POST, or answer the POST with the frame
Deliver(i, request, frame, awaited, fault, liveAtDispatch) ==
    LET chan == LiveChannel(sessionObjs[mcpConn[i].session])
        post == [NoPost EXCEPT !.request = request, !.sessionId = mcpConn[i].sessionId,
                               !.status = 200, !.dispatched = frame, !.awaited = awaited,
                               !.backendFault = fault,
                               !.liveAtDispatch = liveAtDispatch,
                               !.overtaken = mcpConn[i].overtaken,
                               !.concurrent = OthersAwaiting(i),
                               !.header = mcpConn[i].resHeader,
                               !.authorization = mcpConn[i].authorization]
    IN  /\ mcpConn' = Settle(i, chan # 0)
        /\ IF chan # 0
           THEN /\ channels' = [channels EXCEPT ![chan].frames = SseWrite(@, frame)]
                /\ lastPost' = [post EXCEPT !.body = "sent_via_sse"]
           ELSE /\ channels' = channels
                /\ lastPost' = [post EXCEPT !.body = "frame", !.frame = frame]

\* GongClient.listCalls / retrieveTranscripts: if (limit) params.limit = limit
ForwardedLimit(limit) == IF limit.present /\ limit.value # 0 THEN limit ELSE NoLimit

\* req.on('end', ...) with the received body, up to the first suspension
McpPost(i, body) ==
    LET session == mcpConn[i].session
        outcome == IF body.json = "object" THEN Dispatch(body, gongConfigured) ELSE Throws
        live == LiveChannel(sessionObjs[session]) # 0
    IN
    /\ running
    /\ mcpConn[i].phase = "receiving"
    /\ sessionObjs' = IF body.json = "object" /\ body.method = "initialize"
                      THEN [sessionObjs EXCEPT ![session].initialized = TRUE]
                      ELSE sessionObjs
    /\ CASE outcome.kind = "throw" ->
              /\ lastPost' = [NoPost EXCEPT !.request = body,
                                 !.sessionId = mcpConn[i].sessionId, !.status = 400,
                                 !.body = "frame", !.frame = ErrorFrame(NullId, -32700),
                                 !.concurrent = OthersAwaiting(i),
                                 !.header = mcpConn[i].resHeader,
                                 !.authorization = mcpConn[i].authorization]
              /\ mcpConn' = Settle(i, FALSE)
              /\ UNCHANGED channels
         [] outcome.kind = "null" ->
              /\ lastPost' = [NoPost EXCEPT !.request = body,
                                 !.sessionId = mcpConn[i].sessionId, !.status = 200,
                                 !.body = "empty", !.concurrent = OthersAwaiting(i),
                                 !.header = mcpConn[i].resHeader,
                                 !.authorization = mcpConn[i].authorization]
              /\ mcpConn' = Settle(i, FALSE)
              /\ UNCHANGED channels
         [] outcome.kind = "await" ->
              /\ mcpConn' = [mcpConn EXCEPT ![i].phase = "awaiting", ![i].request = body,
                                            ![i].liveAtDispatch = live,
                                            ![i].forwarded = ForwardedLimit(body.limit)]
              /\ UNCHANGED <<channels, lastPost>>
         [] outcome.kind = "frame" ->
              /\ Deliver(i, body, outcome.frame, FALSE, FALSE, live)
    /\ UNCHANGED <<now, running, swept, oauthVars, gongConfigured, activeSessions, mcpReqs>>

McpEnd(i) == \E body \in McpBodies : McpPost(i, body)

\* Bodies of a client that sends well-formed messages with params: a tool call, a ping
\* and the initialized notification, each with or without id
PlainBodies ==
    {Message(id, method, TRUE, Null, "missing") :
        id \in {NoId} \cup RequestIds, method \in {"ping", "notifications/initialized"}}
    \cup {Message(id, "tools/call", TRUE, "list_calls", "valid") :
            id \in {NoId} \cup RequestIds}

McpEndPlain(i) == \E body \in PlainBodies : McpPost(i, body)

\* gongClient.listCalls / retrieveTranscripts settles: the awaited handler returns the
\* result frame, or its catch block returns the -32603 frame
BackendReturn(i, fault) ==
    /\ running
    /\ mcpConn[i].phase = "awaiting"
    /\ LET request == mcpConn[i].request
           frame == IF fault THEN ErrorFrame(request.id, -32603) ELSE ResultFrame(request.id)
       IN  Deliver(i, request, frame, TRUE, fault, mcpConn[i].liveAtDispatch)
    /\ UNCHANGED <<now, running, swept, oauthVars, gongConfigured, activeSessions, sessionObjs, mcpReqs>>

----------------------------------------------------------------------------
\* The connection of a client that waits for the answer before it sends its next POST
SerialConns == {1}

\* The transport: sessions, SSE channels, timers and well-formed traffic
NextMcp ==
    \/ TickMcp
    \/ Sweep
    \/ SseOpen(NoKey)
    \/ \E c \in 1..Len(channels) : Heartbeat(c)
    \/ \E c \in 1..Len(channels) : SocketClose(c)
    \/ \E c \in 1..Len(channels) : \E event \in channels[c].events : Cleanup(c, event)
    \/ \E i \in SerialConns : \E header \in Headers : McpStart(i, header, NoKey)
    \/ \E i \in SerialConns : McpData(i)
    \/ \E i \in SerialConns : McpEndPlain(i)
    \/ \E i \in SerialConns : \E fault \in BOOLEAN : BackendReturn(i, fault)

SpecMcp == Init /\ [][NextMcp]_vars

\* The dispatcher: every body a client may POST, with or without an SSE channel
NextDispatch ==
    \/ SseOpen(NoKey)
    \/ \E c \in 1..Len(channels) : SocketClose(c)
    \/ \E c \in 1..Len(channels) : \E event \in channels[c].events : Cleanup(c, event)
    \/ \E i \in SerialConns : \E header \in Headers : McpStart(i, header, NoKey)
    \/ \E i \in SerialConns : McpData(i)
    \/ \E i \in SerialConns : McpEnd(i)
    \/ \E i \in SerialConns : \E fault \in BOOLEAN : BackendReturn(i, fault)

SpecDispatch == Init /\ [][NextDispatch]_vars

\* Event streams of both kinds and well-formed traffic, within the session timeout
NextStreams ==
    \/ SseOpen(NoKey)
    \/ \E header \in Headers : \E eventStream \in BOOLEAN : McpGet(header, eventStream)
    \/ \E c \in 1..Len(channels) : SocketClose(c)
    \/ \E c \in 1..Len(channels) : \E event \in channels[c].events : Cleanup(c, event)
    \/ \E i \in SerialConns : \E header \in Headers : McpStart(i, header, NoKey)
    \/ \E i \in SerialConns : McpEndPlain(i)
    \/ \E i \in SerialConns : \E fault \in BOOLEAN : BackendReturn(i, fault)

SpecStreams == Init /\ [][NextStreams]_vars

\* Tool calls whose arguments pass the type guards, with the limits a client may send:
\* none, and numbers at and around the documented range of 1 to 100
LimitValues == {-1, 0, 1, MAX_LIMIT, MAX_LIMIT + 1}
ToolBodies ==
    {[Message(id, "tools/call", TRUE, name, "valid") EXCEPT !.limit = limit] :
        id \in {NoId} \cup RequestIds,
        name \in {"list_calls", "retrieve_transcripts"},
        limit \in {NoLimit} \cup {Limit(n) : n \in LimitValues}}

McpEndTools(i) == \E body \in ToolBodies : McpPost(i, body)

\* Tool calls of a client that pages through results
NextTools ==
    \/ \E i \in SerialConns : \E header \in Headers : McpStart(i, header, NoKey)
    \/ \E i \in SerialConns : McpData(i)
    \/ \E i \in SerialConns : McpEndTools(i)
    \/ \E i \in SerialConns : \E fault \in BOOLEAN : BackendReturn(i, fault)

SpecTools == Init /\ [][NextTools]_vars

\* Clients that POST on two connections at once, to one session or to several, next
\* to a client that registers at the authorization server
NextOverlap ==
    \/ SseOpen(NoKey)
    \/ Register
    \/ \E i \in McpConns : \E header \in Headers : McpStart(i, header, NoKey)
    \/ \E i \in McpConns : McpEndPlain(i)
    \/ \E i \in McpConns : \E fault \in BOOLEAN : BackendReturn(i, fault)

SpecOverlap == Init /\ [][NextOverlap]_vars

\* A client that obtains an access token and one that has none, each sending requests
\* with whatever Authorization header it likes, before and after the token's lifetime
NextBearer ==
    \/ TickLifetime
    \/ AuthorizePlain
    \/ TokenStart(1)
    \/ TokenEndPlain(1)
    \/ \E authorization \in Authorizations : SseOpen(authorization)
    \/ \E i \in SerialConns : \E header \in Headers : \E authorization \in Authorizations :
          McpStart(i, header, authorization)
    \/ \E i \in SerialConns : McpEndPlain(i)
    \/ \E i \in SerialConns : \E fault \in BOOLEAN : BackendReturn(i, fault)

SpecBearer == InitToken /\ [][NextBearer]_vars

----------------------------------------------------------------------------
(***************************************************************************)
(* Properties of the protocol dispatcher and of result delivery            *)
(***************************************************************************)
\* The 'end' callback of the POST on connection i, or the continuation after its
\* ToolBackend call, has answered the POST
McpAnswerStep(i) ==
    /\ mcpConn[i].phase \in {"receiving", "awaiting"}
    /\ mcpConn'[i].phase = "idle"

\* handleMCPRequest has resolved the session of the POST on connection i
McpStartStep(i) ==
    /\ mcpConn[i].phase = "idle"
    /\ mcpConn'[i].phase = "receiving"

\* The frame the client of the last POST received, on either channel
ReplyFrame == IF lastPost.body = "frame" THEN lastPost.frame ELSE lastPost.dispatched

\* C4: a POSTed message object without id gets no reply frame, whatever its method: the
\* HTTP response is an empty 200 and no frame is dispatched to the push channel.
C4_NotificationGetsNoReply ==
    (lastPost.request.json = "object" /\ lastPost.request.id = NoId)
        => /\ lastPost.status = 200
           /\ lastPost.body = "empty"
           /\ lastPost.dispatched = NoFrame

\* C5: a POSTed message object with an id gets one reply frame, a result or an error,
\* whose id is the id of the request, for every method and with or without params.
C5_RequestGetsReplyWithItsId ==
    (lastPost.request.json = "object" /\ lastPost.request.id \in RequestIds)
        => /\ ReplyFrame.kind \in {"result", "error"}
           /\ ReplyFrame.id = lastPost.request.id

\* C6: when the push channel opened for a session id is still live, the reply frame of a
\* tools/call request POSTed with that session id is appended to that channel and the
\* HTTP response is the sent_via_sse acknowledgment without the frame.
C6_LiveChannelGetsToolResult ==
    [][\A i \in McpConns : \A c \in 1..Len(channels) :
          ( /\ McpAnswerStep(i)
            /\ lastPost'.request.method = "tools/call"
            /\ lastPost'.request.id \in RequestIds
            /\ lastPost'.dispatched.kind = "result"
            /\ channels[c].sessionId = mcpConn[i].sessionId
            /\ ~channels[c].destroyed )
            => /\ lastPost'.body = "sent_via_sse"
               /\ lastPost'.frame = NoFrame
               /\ channels'[c].frames = Append(channels[c].frames, lastPost'.dispatched)]_vars

\* C7: a dispatched frame is delivered exactly once: appended to the push channel of the
\* session record when that channel is attached and not destroyed at delivery time (the
\* HTTP response then carries no frame), otherwise as the HTTP response body with no
\* channel written; a session id for which no channel was ever opened is answered in
\* the HTTP response.
C7_DeliveredOnExactlyOneChannel ==
    [][\A i \in McpConns :
          (McpAnswerStep(i) /\ lastPost'.dispatched # NoFrame)
            => LET session == sessionObjs[mcpConn[i].session]
                   attached == session.sseResponse
                   live == attached # 0 /\ ~channels[attached].destroyed
               IN  /\ live => /\ lastPost'.body = "sent_via_sse"
                               /\ lastPost'.frame = NoFrame
                               /\ channels' = [channels EXCEPT ![attached].frames =
                                                  Append(@, lastPost'.dispatched)]
                   /\ ~live => /\ lastPost'.body = "frame"
                                /\ lastPost'.frame = lastPost'.dispatched
                                /\ channels' = channels
                   /\ (\A c \in 1..Len(channels) :
                          channels[c].sessionId # mcpConn[i].sessionId)
                        => lastPost'.body = "frame"]_vars

\* A tools/call was dispatched while the session's channel was live, the channel closed
\* during the ToolBackend call, and the result came back in the HTTP response
C7_Witness ==
    /\ lastPost.request.method = "tools/call"
    /\ lastPost.awaited
    /\ lastPost.liveAtDispatch
    /\ lastPost.dispatched.kind = "result"
    /\ lastPost.body = "frame"
    /\ lastPost.frame = lastPost.dispatched

\* C19: a request whose session-id header names a session in the registry is served by
\* that session and creates none; a request without the header, or whose header names
\* no session in the registry, gets a new session under an identifier that the server
\* generated and that is not the value the client sent.
C19_ServerAllocatesSessionIds ==
    [][\A i \in McpConns :
          McpStartStep(i)
            => LET header == mcpConn'[i].header
                   sessionId == mcpConn'[i].sessionId
               IN  IF header # NoHeader /\ header \in DOMAIN activeSessions
                   THEN /\ sessionId = header
                        /\ activeSessions' = activeSessions
                        /\ Len(sessionObjs') = Len(sessionObjs)
                   ELSE /\ sessionId \notin DOMAIN activeSessions
                        /\ sessionId \in DOMAIN activeSessions'
                        /\ sessionId.kind = "uuid"
                        /\ sessionId # header]_vars

\* C20: when an event stream is opened for a session whose record references a live
\* stream, the record references the new stream from then on (so that later result
\* frames are written to the new stream), and no older stream of that session stays
\* referenced.
C20_NewChannelSupersedes ==
    [][Len(channels') = Len(channels) + 1
          => LET c == Len(channels')
                 id == channels'[c].sessionId
             IN  ( /\ id \in DOMAIN activeSessions
                   /\ LiveChannel(sessionObjs[activeSessions[id]]) # 0 )
                   => /\ id \in DOMAIN activeSessions'
                      /\ sessionObjs'[activeSessions'[id]].sseResponse = c]_vars

\* C21: an event stream opened by GET on the rpc endpoint is attached to the session it
\* was opened for (the record references it), and the reply frame of a later POST with
\* that session id is written to that stream while it is live.
C21_RpcStreamAttached ==
    [][/\ Len(channels') = Len(channels) + 1 /\ channels'[Len(channels')].via = "rpc"
          => LET c == Len(channels')
                 id == channels'[c].sessionId
             IN  /\ id \in DOMAIN activeSessions'
                 /\ sessionObjs'[activeSessions'[id]].sseResponse = c
       /\ \A i \in McpConns : \A c \in ChannelsVia("rpc") :
             ( /\ McpAnswerStep(i)
               /\ lastPost'.dispatched # NoFrame
               /\ channels[c].sessionId = mcpConn[i].sessionId
               /\ ~channels[c].destroyed
               /\ \A d \in ChannelsVia("rpc") :
                     channels[d].sessionId = mcpConn[i].sessionId => d <= c )
               => /\ lastPost'.body = "sent_via_sse"
                  /\ channels'[c].frames
                       = Append(channels[c].frames, lastPost'.dispatched)]_vars

\* An event listener of the /sse stream c has run cleanup()
SseCleanupStep(c) ==
    /\ channels[c].via = "sse"
    /\ channels'[c].events # channels[c].events
    /\ channels'[c].destroyed = channels[c].destroyed

\* C22: when the connection of a push channel closes, aborts or errors, the session
\* registered under the channel's id loses its channel reference and nothing else, and
\* the registry keeps every session under its id; a POST that then names this id is
\* served by that same session record and its reply is the body of the HTTP response.
C22_ClosedChannelDetached ==
    [][/\ \A c \in 1..Len(channels) :
             SseCleanupStep(c)
               => /\ activeSessions' = activeSessions
                  /\ Len(sessionObjs') = Len(sessionObjs)
                  /\ \A o \in 1..Len(sessionObjs) :
                        IF /\ channels[c].sessionId \in DOMAIN activeSessions
                           /\ activeSessions[channels[c].sessionId] = o
                        THEN sessionObjs'[o] = [sessionObjs[o] EXCEPT !.sseResponse = 0]
                        ELSE sessionObjs'[o] = sessionObjs[o]
       /\ \A i \in McpConns : \A c \in ChannelsVia("sse") :
             ( /\ channels[c].destroyed
               /\ channels[c].events = {}
               /\ channels[c].sessionId \in DOMAIN activeSessions )
               => /\ ( McpStartStep(i) /\ mcpConn'[i].header = channels[c].sessionId )
                       => /\ mcpConn'[i].session = activeSessions[channels[c].sessionId]
                          /\ activeSessions' = activeSessions
                  /\ ( /\ McpAnswerStep(i)
                       /\ mcpConn[i].sessionId = channels[c].sessionId
                       /\ lastPost'.dispatched # NoFrame )
                       => /\ lastPost'.status = 200
                          /\ lastPost'.body = "frame"
                          /\ lastPost'.frame = lastPost'.dispatched
                          /\ channels' = channels]_vars

\* A /sse stream was closed and cleaned up, its session is still the one registered
\* under its id, and a POST naming that id was answered with a result in its body
C22_Witness ==
    \E c \in ChannelsVia("sse") :
        /\ channels[c].destroyed
        /\ channels[c].events = {}
        /\ channels[c].sessionId \in DOMAIN activeSessions
        /\ activeSessions[channels[c].sessionId] = channels[c].sessionId.n
        /\ sessionObjs[channels[c].sessionId.n].sseResponse = 0
        /\ lastPost.sessionId = channels[c].sessionId
        /\ ~lastPost.liveAtDispatch
        /\ lastPost.dispatched.kind = "result"
        /\ lastPost.body = "frame"

\* C23: on every push channel the first frame written is the handshake naming the
\* channel's session id, ahead of every heartbeat and result frame; while the connection
\* is open the heartbeat timer runs with a period of 15 seconds; once the connection has
\* closed nothing more is written to the channel.
C23_HandshakeThenHeartbeats ==
    [][\A c \in 1..Len(channels') :
          /\ Len(channels'[c].frames) >= 1
          /\ channels'[c].frames[1] = ConnectionFrame(channels'[c].sessionId)
          /\ \A k \in 2..Len(channels'[c].frames) :
                channels'[c].frames[k].kind # "connection"
          /\ ~channels'[c].destroyed
                => channels'[c].keepAlive /\ channels'[c].interval = HEARTBEAT_INTERVAL
          /\ (c <= Len(channels) /\ channels[c].destroyed)
                => channels'[c].frames = channels[c].frames]_vars

\* C24: a run of the sweep leaves no session in the registry whose last activity is
\* more than 30 minutes old and removes no session whose last activity is at most 30
\* minutes old; a session leaves the registry in no step other than a sweep.
C24_SweepEvictsExactlyIdle ==
    [][/\ \A id \in DOMAIN activeSessions :
             id \notin DOMAIN activeSessions'
               => /\ now - sessionObjs[activeSessions[id]].lastActivity > 30 * 60 * 1000
                  /\ swept'
                  /\ now' = now
                  /\ <<sessionObjs, channels, mcpConn, lastPost, oauthVars>>'
                       = <<sessionObjs, channels, mcpConn, lastPost, oauthVars>>
       /\ swept'
             => \A id \in DOMAIN activeSessions' :
                   now' - sessionObjs'[activeSessions'[id]].lastActivity <= 30 * 60 * 1000]_vars

\* A sweep has evicted one session and kept another whose last activity is exactly
\* 30 minutes old
C24_Witness ==
    /\ swept
    /\ \E o \in 1..Len(sessionObjs) :
          /\ \A id \in DOMAIN activeSessions : activeSessions[id] # o
          /\ now - sessionObjs[o].lastActivity > SESSION_TIMEOUT
    /\ \E id \in DOMAIN activeSessions :
          now - sessionObjs[activeSessions[id]].lastActivity = SESSION_TIMEOUT

\* C25: a request that carries an id and names a method outside the dispatch table is
\* answered with HTTP 200 and the error frame -32601 addressed to that id, within the
\* callback that received it: no handler runs and ToolBackend is not called.
C25_UnknownMethodNotFound ==
    [][\A i \in McpConns :
          ( /\ McpAnswerStep(i)
            /\ lastPost'.request.json = "object"
            /\ lastPost'.request.id \in RequestIds
            /\ lastPost'.request.method \notin HandlerTable )
            => /\ lastPost'.status = 200
               /\ lastPost'.dispatched = ErrorFrame(lastPost'.request.id, -32601)
               /\ ReplyFrame' = lastPost'.dispatched
               /\ ~lastPost'.awaited
               /\ mcpConn[i].phase = "receiving"]_vars

\* C26: when ToolBackend raises a fault during a tools/call request that carries an id,
\* or credentials are missing, the request is answered with HTTP 200 and the error
\* frame -32603 addressed to its id, on the channel a result would take; the session
\* registry and the session records are left as they were.
C26_BackendFaultIsInternalError ==
    [][\A i \in McpConns :
          ( /\ McpAnswerStep(i)
            /\ lastPost'.request.json = "object"
            /\ lastPost'.request.method = "tools/call"
            /\ lastPost'.request.id \in RequestIds
            /\ lastPost'.backendFault \/ ~gongConfigured )
            => /\ lastPost'.status = 200
               /\ lastPost'.dispatched = ErrorFrame(lastPost'.request.id, -32603)
               /\ ReplyFrame' = lastPost'.dispatched
               /\ LET chan == LiveChannel(sessionObjs[mcpConn[i].session])
                  IN  IF chan # 0
                      THEN /\ lastPost'.body = "sent_via_sse"
                           /\ channels'[chan].frames
                                = Append(channels[chan].frames, lastPost'.dispatched)
                      ELSE lastPost'.body = "frame" /\ channels' = channels
               /\ activeSessions' = activeSessions
               /\ sessionObjs' = sessionObjs]_vars

\* A tools/call with an id whose ToolBackend call failed was answered with -32603
C26_Witness ==
    /\ lastPost.backendFault
    /\ lastPost.awaited
    /\ lastPost.request.method = "tools/call"
    /\ lastPost.request.id \in RequestIds
    /\ lastPost.status = 200
    /\ lastPost.dispatched = ErrorFrame(lastPost.request.id, -32603)

\* C27: a tools/list request that carries an id is answered with HTTP 200 and a result
\* frame addressed to that id whose catalog is list_calls followed by
\* retrieve_transcripts, whether or not the session is initialized, has a push channel,
\* or the server has credentials.
C27_ToolsListFixedCatalog ==
    [][\A i \in McpConns :
          ( /\ McpAnswerStep(i)
            /\ lastPost'.request.json = "object"
            /\ lastPost'.request.method = "tools/list"
            /\ lastPost'.request.id \in RequestIds )
            => /\ lastPost'.status = 200
               /\ lastPost'.dispatched.kind = "result"
               /\ lastPost'.dispatched.id = lastPost'.request.id
               /\ lastPost'.dispatched.tools = <<"list_calls", "retrieve_transcripts">>
               /\ ReplyFrame' = lastPost'.dispatched]_vars

\* tools/list was answered with the catalog in a session that never ran initialize, on
\* a server without credentials
C27_Witness ==
    /\ ~gongConfigured
    /\ lastPost.request.method = "tools/list"
    /\ lastPost.request.id \in RequestIds
    /\ lastPost.sessionId \in DOMAIN activeSessions
    /\ ~sessionObjs[activeSessions[lastPost.sessionId]].initialized
    /\ sessionObjs[activeSessions[lastPost.sessionId]].sseResponse = 0
    /\ lastPost.frame.tools = ToolCatalog

\* C28: within one session the reply frames appear on the push channel in the order in
\* which their requests were received: no reply is written to the push channel after
\* the reply to a request of the same session that was received later, also when the
\* earlier request is a tools/call that waited for ToolBackend.
C28_PushRepliesInArrivalOrder ==
    ~(lastPost.overtaken /\ lastPost.body = "sent_via_sse")

\* C29: while a tools/call handler is suspended waiting for ToolBackend, however long,
\* the server keeps serving every other connection: a POST of any session can start, a
\* POST whose body is complete is dispatched and answered, and a registration at the
\* authorization server is answered.
C29_SuspendedCallBlocksNobody ==
    \A j \in McpConns :
        mcpConn[j].phase = "awaiting"
          => /\ \A i \in McpConns \ {j} :
                  /\ mcpConn[i].phase = "receiving" => ENABLED McpEndPlain(i)
                  /\ (mcpConn[i].phase = "idle" /\ mcpReqs < MaxMcpReqs)
                       => \A header \in DOMAIN activeSessions : ENABLED McpStart(i, header, NoKey)
             /\ nextClient <= MaxRegistrations
                  => ENABLED OAuthRegistration([kind |-> "object", redirect_uris |-> <<>>])

\* While a tools/call is still waiting for ToolBackend, a POST of another session was
\* received and answered and a client was registered
C29_Witness ==
    \E j \in McpConns :
        /\ mcpConn[j].phase = "awaiting"
        /\ lastPost.concurrent
        /\ lastPost.status = 200
        /\ lastPost.sessionId # mcpConn[j].sessionId
        /\ oauthResp.concurrent
        /\ oauthResp.status = 201

\* C30: the frames written to a push channel are only ever appended: no step, and in
\* particular no heartbeat write, removes, overwrites or reorders a frame already on the
\* channel, and a heartbeat write adds exactly one heartbeat frame at the end.
C30_HeartbeatsOnlyAppend ==
    [][\A c \in 1..Len(channels) :
          /\ Len(channels'[c].frames) >= Len(channels[c].frames)
          /\ SubSeq(channels'[c].frames, 1, Len(channels[c].frames)) = channels[c].frames
          /\ (channels'[c].heartbeats # channels[c].heartbeats /\ ~channels[c].destroyed)
                => channels'[c].frames = channels[c].frames \o <<HeartbeatFrame>>]_vars

\* A heartbeat was written to a push channel right after a result frame
C30_Witness ==
    \E c \in 1..Len(channels) : \E k \in 1..Len(channels[c].frames) :
        /\ channels[c].frames[k].kind = "result"
        /\ k < Len(channels[c].frames)
        /\ channels[c].frames[k + 1] = HeartbeatFrame

\* C31: the limit of every request that a list_calls or retrieve_transcripts call sends
\* to the Gong backend is absent or lies between 1 and 100.
C31_ForwardedLimitInRange ==
    \A i \in McpConns :
        mcpConn[i].phase = "awaiting"
          => \/ mcpConn[i].forwarded = NoLimit
             \/ /\ mcpConn[i].forwarded.value >= 1
                /\ mcpConn[i].forwarded.value <= 100

\* C32: every POST to the rpc endpoint sets the last activity of the session it
\* resolves to the current time, and its response carries the resolved session id in the
\* Mcp-Session-Id header; a session is evicted only when its last request is more than
\* 30 minutes old.
C32_RequestTouchesSession ==
    [][/\ \A i \in McpConns :
             /\ McpStartStep(i)
                  => LET sid == mcpConn'[i].sessionId
                     IN  /\ sid \in DOMAIN activeSessions'
                         /\ activeSessions'[sid] = mcpConn'[i].session
                         /\ sessionObjs'[activeSessions'[sid]].lastActivity = now
                         /\ mcpConn'[i].resHeader = sid
             /\ McpAnswerStep(i)
                  => /\ lastPost'.header = mcpConn[i].sessionId
                     /\ lastPost'.header # NoHeader
       /\ \A sid \in DOMAIN activeSessions :
             now - sessionObjs[activeSessions[sid]].lastActivity <= SESSION_TIMEOUT
               => sid \in DOMAIN activeSessions']_vars

\* A session took two POSTs, the later one 30 minutes before a sweep, and is still
\* registered after that sweep
C32_Witness ==
    /\ swept
    /\ now = 2 * SESSION_TIMEOUT
    /\ mcpReqs = 2
    /\ Len(sessionObjs) = 1
    /\ lastPost.header = lastPost.sessionId
    /\ lastPost.sessionId \in DOMAIN activeSessions
    /\ sessionObjs[activeSessions[lastPost.sessionId]].lastActivity = SESSION_TIMEOUT

\* C33: a detach (any of the close, error and aborted listeners, in any order, each
\* running cleanup) neither adds nor removes a registry entry nor stops the server, and
\* when the sweep has already evicted the channel's session it changes no session
\* record; a sweep that runs after a detach keeps the session if it is not idle and
\* changes no session record.
C33_SweepAndDetachIndependent ==
    [][\A c \in ChannelsVia("sse") :
          /\ SseCleanupStep(c)
               => /\ activeSessions' = activeSessions
                  /\ running'
                  /\ channels[c].sessionId \notin DOMAIN activeSessions
                       => sessionObjs' = sessionObjs
          /\ ( /\ channels[c].destroyed
               /\ "close" \notin channels[c].events
               /\ swept' /\ ~swept
               /\ channels[c].sessionId \in DOMAIN activeSessions
               /\ now - sessionObjs[activeSessions[channels[c].sessionId]].lastActivity
                    <= SESSION_TIMEOUT )
               => /\ channels[c].sessionId \in DOMAIN activeSessions'
                  /\ activeSessions'[channels[c].sessionId]
                       = activeSessions[channels[c].sessionId]
                  /\ sessionObjs' = sessionObjs]_vars

\* The listeners of a stream ran cleanup after the sweep had evicted its session, the
\* session was not recreated, and the server is running
C33_Witness ==
    \E c \in ChannelsVia("sse") :
        /\ channels[c].missed
        /\ channels[c].events = {}
        /\ channels[c].sessionId \notin DOMAIN activeSessions
        /\ sessionObjs[channels[c].sessionId.n].sseResponse = c
        /\ running

\* The arguments of a tools/call fail the shape checks of its tool, or the tool is unknown
ToolCallRejected(request) ==
    \/ ~request.hasParams
    \/ request.args # "valid"
    \/ request.name \notin {"list_calls", "retrieve_transcripts"}

\* C34: a tools/call request with an id whose arguments are missing or fail the type
\* guard of its tool, or whose tool name is unknown, is answered with an error frame
\* addressed to its id, and its handler never reaches the ToolBackend call.
C34_InvalidToolCallRejected ==
    [][\A i \in McpConns :
          /\ (mcpConn[i].phase = "receiving" /\ mcpConn'[i].phase = "awaiting")
               => ~ToolCallRejected(mcpConn'[i].request)
          /\ ( /\ McpAnswerStep(i)
               /\ lastPost'.request.json = "object"
               /\ lastPost'.request.method = "tools/call"
               /\ lastPost'.request.id \in RequestIds
               /\ ToolCallRejected(lastPost'.request) )
               => /\ mcpConn[i].phase = "receiving"
                  /\ ~lastPost'.awaited
                  /\ lastPost'.dispatched.kind = "error"
                  /\ lastPost'.dispatched.id = lastPost'.request.id
                  /\ ReplyFrame' = lastPost'.dispatched]_vars

\* On a server with credentials, retrieve_transcripts with arguments that fail the type
\* guard was answered with an error frame without a ToolBackend call
C34_Witness ==
    /\ gongConfigured
    /\ lastPost.request.method = "tools/call"
    /\ lastPost.request.name = "retrieve_transcripts"
    /\ lastPost.request.args = "invalid"
    /\ lastPost.request.id \in RequestIds
    /\ ~lastPost.awaited
    /\ lastPost.dispatched = ErrorFrame(lastPost.request.id, -32603)

\* C35: a POST to the rpc endpoint is answered with HTTP 400 and the error frame -32700
\* with id null exactly when its body is not valid JSON.
C35_ParseErrorIffMalformed ==
    lastPost # NoPost
      => ( (lastPost.status = 400 \/ lastPost.frame = ErrorFrame(NullId, -32700))
             <=> lastPost.request.json = "malformed" )

\* C36: an exchange with a wrong grant type, or one answered invalid_client, fails with
\* HTTP 400 and leaves the store of codes and tokens as it was; an exchange with the
\* right grant type of a stored code that has not expired succeeds.
C36_FailedExchangeKeepsCode ==
    [][\A i \in TokenConns :
          TokenEndStep(i)
            => /\ ( \/ lastExchange'.grant_type # "authorization_code"
                    \/ lastExchange'.resp.error = "invalid_client" )
                    => /\ lastExchange'.resp.status = 400
                       /\ oauthTokens' = oauthTokens
                       /\ nextToken' = nextToken
               /\ ( /\ lastExchange'.grant_type = "authorization_code"
                    /\ lastExchange'.code \in DOMAIN issued
                    /\ lastExchange'.code \in DOMAIN oauthTokens
                    /\ oauthTokens[lastExchange'.code].expires_at >= now )
                    => /\ lastExchange'.resp.status = 200
                       /\ lastExchange'.code \notin DOMAIN oauthTokens']_vars

\* An exchange presented a stored, unexpired code with a wrong grant type and failed,
\* and the code is still in the store
C36_Witness ==
    /\ lastExchange.grant_type = "refresh_token"
    /\ lastExchange.resp.status = 400
    /\ lastExchange.code \in DOMAIN issued
    /\ lastExchange.code_present
    /\ lastExchange.code \in DOMAIN oauthTokens
    /\ oauthTokens[lastExchange.code].expires_at >= now

\* C37: the client id recorded on every stored authorization code and on every stored
\* access token is the key of a client record in the store.
C37_GrantsReferToClients ==
    \A key \in DOMAIN oauthTokens : oauthTokens[key].client_id \in DOMAIN oauthClients

\* The store holds an access token for a client that was never registered at /register
\* and is not the client its code was issued to
C37_Witness ==
    \E key \in DOMAIN oauthTokens :
        /\ key.kind = "access"
        /\ key \in DOMAIN minted
        /\ oauthTokens[key].client_id \in RequestClientIds
        /\ oauthTokens[key].client_id # minted[key].code_client
        /\ oauthTokens[key].client_id \in DOMAIN oauthClients

\* C38: for every stream opened at /sse whose connection is still open, the registry
\* holds the session created for it under the stream's id and that session's channel
\* reference is the stream; the sweep evicts no session whose stream is open.
C38_NoOrphanedChannel ==
    \A c \in ChannelsVia("sse") :
        ~channels[c].destroyed
          => /\ channels[c].sessionId \in DOMAIN activeSessions
             /\ activeSessions[channels[c].sessionId] = channels[c].sessionId.n
             /\ sessionObjs[channels[c].sessionId.n].sseResponse = c

\* C39: when GET /authorize names a client that already has a record, a code is issued
\* and a 302 is answered only if the redirect target is one of the redirect URIs of that
\* record.
C39_RedirectToRegisteredUri ==
    [][( /\ AuthorizeStep
         /\ oauthResp'.request.client_id \in DOMAIN oauthClients
         /\ (oauthResp'.status = 302 \/ nextCode' # nextCode) )
         => \E k \in 1..Len(oauthClients[oauthResp'.request.client_id].redirect_uris) :
               /\ oauthClients[oauthResp'.request.client_id].redirect_uris[k]
                    = EffectiveRedirect(oauthResp'.request.redirect_uri)
               /\ oauthResp'.location
                    = oauthClients[oauthResp'.request.client_id].redirect_uris[k]]_vars

\* A GET /sse request was answered: a stream of that kind was opened
SseOpenStep ==
    /\ Len(channels') = Len(channels) + 1
    /\ channels'[Len(channels')].via = "sse"

\* The authorization field of a record, blanked
Unsigned(record) == [record EXCEPT !.authorization = NoKey]

\* C40: protocol dispatch does not depend on the bearer credential. Whatever
\* Authorization header a request carries (none, a value the server never issued, an
\* expired access token, a live one), the same request with any other Authorization
\* header leaves the same session table, the same connection state and the same
\* streams; and no step of a protocol request changes the token store.
C40_DispatchIgnoresBearer ==
    [][ /\ \A i \in SerialConns :
             McpStartStep(i) =>
               \A authorization \in Authorizations :
                  LET other == ResolveSession(mcpConn'[i].header, authorization)
                  IN  /\ sessionObjs' = other.sessionObjs
                      /\ activeSessions' = other.activeSessions
                      /\ Unsigned(mcpConn'[i]) = Unsigned(other.conn)
        /\ SseOpenStep =>
               \A authorization \in Authorizations :
                  /\ sessionObjs' = OpenStream(authorization).sessionObjs
                  /\ activeSessions' = OpenStream(authorization).activeSessions
                  /\ channels' = OpenStream(authorization).channels
        /\ (mcpVars' # mcpVars) => oauthTokens' = oauthTokens ]_vars

\* A POST that carried an access token past its lifetime was admitted, touched its
\* session after the token had expired, and was answered with a result frame
C40_Witness ==
    /\ mcpConn[1].phase = "idle"
    /\ lastPost.status = 200
    /\ ReplyFrame.kind = "result"
    /\ lastPost.authorization \in DOMAIN oauthTokens
    /\ lastPost.sessionId \in DOMAIN activeSessions
    /\ oauthTokens[lastPost.authorization].expires_at
          < sessionObjs[activeSessions[lastPost.sessionId]].lastActivity

====
